---- MODULE Spec2Model ----
(***************************************************************************)
(* Model of the Slidev feedback session coordinator: the Durable Object    *)
(* SlidevFeedbackDO (src/unnamed/part_006) with the HTTP handlers that     *)
(* reach it (src/src/handlers/execute.ts, src/src/handlers/realtime.ts)    *)
(* and the opening messages of the two shipped clients.                    *)
(*                                                                         *)
(* One action is one run of JavaScript between two suspension points: a    *)
(* handler runs to its `await this.state.storage.put(..)`, is queued in    *)
(* `pending`, and its continuation (the broadcast) runs when the write     *)
(* settles.  Other events may be handled in between.                       *)
(*                                                                         *)
(* handleWebSocket only accepts the socket and installs the two listeners; *)
(* it touches no field of the object.  A socket handle that has no entry   *)
(* in `sessions` therefore stands for any accepted socket that has not     *)
(* joined, or whose entry has been deleted: it may send any message, and   *)
(* its close event may be dispatched.                                      *)
(***************************************************************************)
EXTENDS Integers, Sequences, FiniteSets, TLC

(* ------------------------------ bounds -------------------------------- *)
\* handler invocations (WebSocket messages and HTTP requests) in one behaviour;
\* close events and the settling of storage writes are not counted
MaxEvents == 3

(* ------------------------------ inputs -------------------------------- *)
\* socket handles (the server ends of the WebSocketPairs)
Conns == {1, 2}
\* message.sessionToken absent (undefined): falsy
NoToken == "undefined"
\* context.userId absent
NoUser == "undefined"
\* the role and sessionToken a join message may carry
JoinInputs == {<<"presenter", "tA">>, <<"audience", "tB">>, <<"audience", NoToken>>}
\* Date.now()
Times == {1}
\* The session configuration the create handler posts to /init.
ConfigA == [slideCount |-> 2, allowedReactions |-> {<<"+">>}, moderateQuestions |-> TRUE]
\* a configuration that differs in its slide count
ConfigB == [slideCount |-> 3, allowedReactions |-> {<<"+">>}, moderateQuestions |-> TRUE]
InitPayloads == {ConfigA, ConfigB}
\* slide and emoji of a reaction message: emoji "x" is not in
\* ConfigA.allowedReactions, slide 3 is past ConfigA.slideCount
ReactionInputs == {<<1, <<"+">> >>, <<1, <<"x">> >>, <<3, <<"+">> >>}
\* reactions whose emoji holds the separator of the tally key, and one on slide 2
HyphenReactions == {<<1, <<"a", "-", "b">> >>, <<1, <<"a">> >>}
ReactionDomain == ReactionInputs \cup HyphenReactions \cup {<<2, <<"+">> >>}
\* slide of a slideChange message
ChangeSlides == {2, 3}
\* slide of a question message
QuestionSlides == {1}
QuestionText == "q"
\* message.data of an update message: a partial session record
UpdatePayloads == {[slideCount |-> 3]}
\* The slidev_sessions row of the session (its is_active column is dbActive).
DbSession == [require_auth |-> TRUE, moderate_questions |-> TRUE]
Users == {NoUser, "u1"}
\* The session of the coordinator modelled here and its durable_object_id.
ThisSession == "s1"
ThisDo == "do1"
\* The slidev_sessions row of a second session.
OtherSession ==
  [is_active |-> TRUE, require_auth |-> FALSE, moderate_questions |-> FALSE,
   durable_object_id |-> "do2"]
\* input.sessionId ("s0" has no row) and input.durableObjectId of an HTTP request
SessionIds == {"s0", "s1", "s2"}
DoIds == {"do1", "do2"}
\* the input of submitFeedback
FeedbackInputs ==
  {[sessionId |-> sid, slideNumber |-> 1, type |-> "reaction", value |-> <<"+">>,
    durableObjectId |-> d] : sid \in SessionIds, d \in DoIds}
  \cup
  {[sessionId |-> sid, slideNumber |-> 1, type |-> "question", value |-> QuestionText,
    durableObjectId |-> ThisDo] : sid \in SessionIds \ {"s0"}}
\* the shipped clients that open a WebSocket to the coordinator
Clients == {"FeedbackWidget", "PresenterDashboard"}
\* the sockets whose ws.send throws during one handler run
Fails == SUBSET Conns
\* the same during a notification of an HTTP submission
HttpFails == {{}, {1}}

VARIABLES
  sessions,      \* this.sessions: Map in insertion order, [ws, role, sessionToken]
  participants,  \* this.participants
  reactions,     \* this.reactions: key -> count
  currentSlide,  \* this.currentSlide
  sessionData,   \* this.sessionData
  storage,       \* this.state.storage: currentSlide, reactions, sessionData
  pending,       \* handlers suspended at `await this.state.storage.put(..)`
  dbActive,      \* slidev_sessions.is_active
  sent,          \* the messages the last step sent, in order: [to, msg]
  failed,        \* the sends of the last step that threw, in order: [to, msg]
  submitted,     \* history: reaction messages handled, per <<slide, emoji>>
  acked,         \* history: slide of the last slideChange that was broadcast
  shown,         \* history: count of the last reaction broadcast, per <<slide, emoji>>
  opened,        \* history: sockets over which a shipped client sent its opening message
  reply,         \* the outcome of the HTTP request the last step handled, if any
  dbReactions,   \* the rows of slidev_reactions
  dbQuestions,   \* the rows of slidev_questions
  views,         \* the React state of the client component on each socket
  events         \* history: handler invocations so far

vars == <<sessions, participants, reactions, currentSlide, sessionData,
          storage, pending, dbActive, sent, failed, submitted, acked, shown,
          opened, reply, dbReactions, dbQuestions, views, events>>

(* ------------------------- pure functions ----------------------------- *)
DigitChars == <<"0", "1", "2", "3", "4", "5", "6", "7", "8", "9">>

RECURSIVE NatToStr(_)
NatToStr(n) ==
  IF n < 10 THEN <<DigitChars[n + 1]>>
  ELSE NatToStr(n \div 10) \o <<DigitChars[(n % 10) + 1]>>

\* `${n}` of an integer, as a sequence of characters
NumToStr(n) == IF n < 0 THEN <<"-">> \o NatToStr(-n) ELSE NatToStr(n)

\* `${message.slide}-${message.emoji}`
Key(slide, emoji) == NumToStr(slide) \o <<"-">> \o emoji

\* this.reactions.get(key) || 0
Count(r, k) == IF k \in DOMAIN r THEN r[k] ELSE 0

\* a lost update: the count is written from a stale read of an absent key
IncrementLost(r, k) == (k :> 1) @@ r

\* the map is rebuilt with the one key
IncrementReset(r, k) == (k :> Count(r, k) + 1)

\* this.reactions.set(key, current + 1)
Increment(r, k) ==
  IF k \in DOMAIN r THEN [r EXCEPT ![k] = Count(r, k) + 1]
  ELSE r @@ (k :> Count(r, k) + 1)

EmptyObj == [x \in {} |-> 0]

\* { ...a, ...b }
Merge(a, b) ==
  [f \in (DOMAIN a) \cup (DOMAIN b) |-> IF f \in DOMAIN b THEN b[f] ELSE a[f]]

\* `anon-${Date.now()}`
AnonToken(t) == "anon-" \o ToString(t)

(* --------------------------- the registry ----------------------------- *)
HasSession(sess, c) == \E i \in 1..Len(sess) : sess[i].ws = c

SessionOf(sess, c) == sess[CHOOSE i \in 1..Len(sess) : sess[i].ws = c]

WsOf(sess) == {sess[i].ws : i \in 1..Len(sess)}

\* Map.set: an existing key keeps its place
SessionsSet(sess, c, r, t) ==
  LET e == [ws |-> c, role |-> r, sessionToken |-> t] IN
  IF HasSession(sess, c)
  THEN [i \in 1..Len(sess) |-> IF sess[i].ws = c THEN e ELSE sess[i]]
  ELSE Append(sess, e)

\* Map.delete
SessionsDelete(sess, c) == SelectSeq(sess, LAMBDA e : e.ws # c)

Deliveries(targets, msg) ==
  [i \in 1..Len(targets) |-> [to |-> targets[i].ws, msg |-> msg]]

\* broadcast: ws.send to every entry; F are the sockets whose send throws, and
\* their entries are deleted
BroadcastSessions(sess, F) == SelectSeq(sess, LAMBDA e : e.ws \notin F)
\* the loop is left at a send that throws
BroadcastSentAborted(sess, msg, F) ==
  Deliveries(IF F = {} THEN sess ELSE <<>>, msg)
BroadcastSent(sess, msg, F) == Deliveries(BroadcastSessions(sess, F), msg)
BroadcastFailed(sess, msg, F) ==
  Deliveries(SelectSeq(sess, LAMBDA e : e.ws \in F), msg)

\* broadcastToPresenters: only entries with role presenter are tried
IsPresenter(e) == e.role = "presenter"
PresenterSessions(sess, F) ==
  SelectSeq(sess, LAMBDA e : ~(IsPresenter(e) /\ e.ws \in F))
PresenterSent(sess, msg, F) ==
  Deliveries(SelectSeq(sess, LAMBDA e : IsPresenter(e) /\ e.ws \notin F), msg)
PresenterFailed(sess, msg, F) ==
  Deliveries(SelectSeq(sess, LAMBDA e : IsPresenter(e) /\ e.ws \in F), msg)

\* broadcastParticipantCount
ParticipantsMsg(p) == [type |-> "participants", count |-> Cardinality(p)]

\* no HTTP request was handled
NoReply == [result |-> "none"]

\* no client component is mounted on the socket
NoView == [client |-> "none"]

(* ------------------------------ Init ---------------------------------- *)
\* the constructor on empty storage
Init ==
  /\ sessions = <<>>
  /\ participants = {}
  /\ reactions = EmptyObj
  /\ currentSlide = 1
  /\ sessionData = EmptyObj
  /\ storage = EmptyObj
  /\ pending = <<>>
  /\ dbActive = TRUE
  /\ sent = <<>>
  /\ failed = <<>>
  /\ submitted = [p \in ReactionDomain |-> 0]
  /\ acked = 1
  /\ shown = [p \in ReactionDomain |-> 0]
  /\ opened = {}
  /\ reply = NoReply
  /\ dbReactions = <<>>
  /\ dbQuestions = <<>>
  /\ views = [c \in Conns |-> NoView]
  /\ events = 0

\* the step writes no database row and leaves no HTTP reply (Spec follows the
\* coordinator and leaves the database aside; SpecHttp follows both)
NoDb == reply' = NoReply /\ UNCHANGED <<dbReactions, dbQuestions>>

\* the step runs no code of a client component
NoClient == UNCHANGED views

\* one more handler invocation, within the bound
Event == events < MaxEvents /\ events' = events + 1

(* --------------------------- connections ------------------------------ *)
\* the close listener
ParticipantsAfterClose(sess, p, c) ==
  IF HasSession(sess, c) THEN p \ {SessionOf(sess, c).sessionToken} ELSE p

OnClose(c, F) ==
  /\ participants' = ParticipantsAfterClose(sessions, participants, c)
  /\ LET left == SessionsDelete(sessions, c)
         msg == ParticipantsMsg(participants') IN
     /\ F \subseteq WsOf(left)
     /\ sessions' = BroadcastSessions(left, F)
     /\ sent' = BroadcastSent(left, msg, F)
     /\ failed' = BroadcastFailed(left, msg, F)
  /\ UNCHANGED <<reactions, currentSlide, sessionData, storage, pending,
                 dbActive, submitted, acked, shown, opened, events>>

(* ----------------------- WebSocket messages --------------------------- *)
\* sessionToken: message.sessionToken || `anon-${Date.now()}`
JoinToken(tok, t) == IF tok = NoToken THEN AnonToken(t) ELSE tok

\* if (message.sessionToken) this.participants.add(message.sessionToken)
ParticipantsAfterJoin(p, tok) == IF tok # NoToken THEN p \cup {tok} ELSE p

InitMsg(slide, r, p) ==
  [type |-> "init", currentSlide |-> slide, reactions |-> r,
   participants |-> Cardinality(p)]

\* case 'join'; initOk: the ws.send of the init message does not throw
Join(c, role, tok, t, initOk, F) ==
  /\ Event
  /\ participants' = ParticipantsAfterJoin(participants, tok)
  /\ LET joined == SessionsSet(sessions, c, role, JoinToken(tok, t))
         init == [to |-> c, msg |-> InitMsg(currentSlide, reactions, participants')]
         msg == ParticipantsMsg(participants') IN
     IF initOk
     THEN /\ F \subseteq WsOf(joined)
          /\ sessions' = BroadcastSessions(joined, F)
          /\ sent' = <<init>> \o BroadcastSent(joined, msg, F)
          /\ failed' = BroadcastFailed(joined, msg, F)
     ELSE \* the listener's catch logs the error; no broadcast
          /\ F = {}
          /\ sessions' = joined
          /\ sent' = <<>>
          /\ failed' = <<init>>
  /\ UNCHANGED <<reactions, currentSlide, sessionData, storage, pending,
                 dbActive, submitted, acked, shown, opened>>

\* handleReaction up to its await
HandleReaction(c, slide, emoji) ==
  /\ Event
  /\ LET key == Key(slide, emoji)
         current == Count(reactions, key) IN
     /\ reactions' = Increment(reactions, key)
     /\ pending' = Append(pending,
           [op |-> "reaction", ws |-> c, key |-> "reactions", value |-> reactions',
            msg |-> [type |-> "reaction", emoji |-> emoji, slide |-> slide,
                     count |-> current + 1]])
  /\ submitted' = [submitted EXCEPT ![<<slide, emoji>>] = @ + 1]
  /\ sent' = <<>>
  /\ failed' = <<>>
  /\ UNCHANGED <<sessions, participants, currentSlide, sessionData,
                 storage, dbActive, acked, shown, opened>>

\* handleQuestion
QuestionMsg(slide, tok) ==
  [type |-> "question", text |-> QuestionText, slide |-> slide, sessionToken |-> tok]

HandleQuestion(c, slide, tok, F) ==
  /\ Event
  /\ F \subseteq WsOf(sessions)
  /\ sessions' = PresenterSessions(sessions, F)
  /\ sent' = PresenterSent(sessions, QuestionMsg(slide, tok), F)
  /\ failed' = PresenterFailed(sessions, QuestionMsg(slide, tok), F)
  /\ UNCHANGED <<participants, reactions, currentSlide, sessionData,
                 storage, pending, dbActive, submitted, acked, shown, opened>>

\* handleSlideChange up to its await
HandleSlideChange(c, slide) ==
  /\ Event
  /\ currentSlide' = slide
  /\ pending' = Append(pending,
        [op |-> "slideChange", ws |-> c, key |-> "currentSlide", value |-> slide])
  /\ sent' = <<>>
  /\ failed' = <<>>
  /\ UNCHANGED <<sessions, participants, reactions, sessionData, storage,
                 dbActive, submitted, acked, shown, opened>>

\* handleUpdate up to its await
HandleUpdate(c, data) ==
  /\ Event
  /\ sessionData' = Merge(sessionData, data)
  /\ pending' = Append(pending,
        [op |-> "update", ws |-> c, key |-> "sessionData", value |-> sessionData',
         msg |-> [type |-> "update", data |-> data]])
  /\ sent' = <<>>
  /\ failed' = <<>>
  /\ UNCHANGED <<sessions, participants, reactions, currentSlide, storage,
                 dbActive, submitted, acked, shown, opened>>

\* case 'ping'; ok: the ws.send does not throw
Ping(c, ok) ==
  /\ Event
  /\ LET pong == [to |-> c, msg |-> [type |-> "pong"]] IN
     /\ sent' = IF ok THEN <<pong>> ELSE <<>>
     /\ failed' = IF ok THEN <<>> ELSE <<pong>>
  /\ UNCHANGED <<sessions, participants, reactions, currentSlide,
                 sessionData, storage, pending, dbActive, submitted, acked,
                 shown, opened>>

\* the cases of the switch in handleWebSocketMessage
MessageTypes == {"join", "reaction", "question", "slideChange", "update", "ping"}

\* handleWebSocketMessage for a message whose type matches no case
NoCase(c, message) ==
  /\ message.type \notin MessageTypes
  /\ Event
  /\ sent' = <<>>
  /\ failed' = <<>>
  /\ UNCHANGED <<sessions, participants, reactions, currentSlide,
                 sessionData, storage, pending, dbActive, submitted, acked,
                 shown>>

\* the message websocket.onopen of the audience widget sends
WidgetOpening == [type |-> "connect", sessionToken |-> "tB"]

\* the message websocket.onopen of the presenter dashboard sends
DashboardOpening == [type |-> "presenterConnect", currentSlide |-> 1, totalSlides |-> 2]

OpeningMessage(client) ==
  IF client = "FeedbackWidget" THEN WidgetOpening ELSE DashboardOpening

\* a shipped client opens its socket; its opening message reaches the
\* coordinator's message listener
ClientOpen(c, client) ==
  /\ opened' = opened \cup {c}
  /\ NoCase(c, OpeningMessage(client))

(* ------------------------- storage.put settles ------------------------ *)
\* the message a resumed handler broadcasts; handleSlideChange reads
\* this.currentSlide after its await
\* the count is read from the tally after the await
ResumeMsgReread(h) ==
  IF h.op = "slideChange" THEN [type |-> "slideChange", slide |-> currentSlide]
  ELSE IF h.op = "reaction"
  THEN [h.msg EXCEPT !.count = Count(reactions, Key(h.msg.slide, h.msg.emoji))]
  ELSE h.msg

ResumeMsg(h) ==
  IF h.op = "slideChange" THEN [type |-> "slideChange", slide |-> currentSlide]
  ELSE h.msg

\* put resolves: the value is stored and the handler goes on to its broadcast
PutResolves(F) ==
  /\ pending # <<>>
  /\ LET h == Head(pending) IN
     /\ storage' = Merge(storage, (h.key :> h.value))
     /\ IF h.op = "init"
        THEN /\ F = {}
             /\ sent' = <<>>
             /\ failed' = <<>>
             /\ UNCHANGED sessions
        ELSE /\ F \subseteq WsOf(sessions)
             /\ sessions' = BroadcastSessions(sessions, F)
             /\ sent' = BroadcastSent(sessions, ResumeMsg(h), F)
             /\ failed' = BroadcastFailed(sessions, ResumeMsg(h), F)
     /\ acked' = IF h.op = "slideChange" THEN h.value ELSE acked
     /\ shown' = IF h.op = "reaction"
                 THEN [shown EXCEPT ![<<h.msg.slide, h.msg.emoji>>] = h.msg.count]
                 ELSE shown
  /\ pending' = Tail(pending)
  /\ UNCHANGED <<participants, reactions, currentSlide, sessionData,
                 dbActive, submitted, opened, events>>

\* put rejects: the handler throws; the listener's catch logs it
PutRejects ==
  /\ pending # <<>>
  /\ pending' = Tail(pending)
  /\ sent' = <<>>
  /\ failed' = <<>>
  /\ UNCHANGED <<sessions, participants, reactions, currentSlide,
                 sessionData, storage, dbActive, submitted, acked, shown, opened,
                 events>>

(* --------------------------- HTTP endpoints --------------------------- *)
\* /init
HandleInit(data) ==
  /\ Event
  /\ sessionData' = data
  /\ pending' = Append(pending, [op |-> "init", ws |-> 0, key |-> "sessionData", value |-> data])
  /\ sent' = <<>>
  /\ failed' = <<>>
  /\ UNCHANGED <<sessions, participants, reactions, currentSlide, storage,
                 dbActive, submitted, acked, shown, opened>>

\* /notify: the request body is broadcast as it is
HandleNotify(data, F) ==
  /\ Event
  /\ F \subseteq WsOf(sessions)
  /\ sessions' = BroadcastSessions(sessions, F)
  /\ sent' = BroadcastSent(sessions, data, F)
  /\ failed' = BroadcastFailed(sessions, data, F)
  /\ UNCHANGED <<participants, reactions, currentSlide, sessionData,
                 storage, pending, submitted, acked, shown, opened>>

\* the body submitFeedback posts to /notify
FeedbackNotification(type, slideNumber, value, tok, user) ==
  [type |-> type, slideNumber |-> slideNumber, value |-> value,
   sessionToken |-> tok, userId |-> user]

\* submitFeedback: the session checks, then the notification
FeedbackAllowed(user) == dbActive /\ (DbSession.require_auth => user # NoUser)

SubmitFeedback(type, slideNumber, value, tok, user, F) ==
  /\ FeedbackAllowed(user)
  /\ HandleNotify(FeedbackNotification(type, slideNumber, value, tok, user), F)
  /\ UNCHANGED dbActive

\* closeSession
CloseSession(F) ==
  /\ dbActive' = FALSE
  /\ HandleNotify([type |-> "close"], F)

(* ------------------- HTTP handlers with the database ------------------ *)
\* the fields of the coordinator object
coordinator == <<sessions, participants, reactions, currentSlide, sessionData,
                 storage, pending>>

\* .from('slidev_sessions').select('*').eq('id', sessionId).single()
NoRow == [found |-> FALSE]
SessionRow(sid) ==
  IF sid = ThisSession
  THEN [found |-> TRUE, is_active |-> dbActive,
        require_auth |-> DbSession.require_auth,
        moderate_questions |-> DbSession.moderate_questions,
        durable_object_id |-> ThisDo]
  ELSE IF sid = "s2" THEN [found |-> TRUE] @@ OtherSession
  ELSE NoRow

\* the authentication check is missing
RejectionNoAuth(session, user) ==
  IF ~session.found THEN "Session not found"
  ELSE IF ~session.is_active THEN "Session is not active"
  ELSE "none"

\* the error submitFeedback throws before it stores anything, or "none"
Rejection(session, user) ==
  IF ~session.found THEN "Session not found"
  ELSE IF ~session.is_active THEN "Session is not active"
  ELSE IF session.require_auth /\ user = NoUser THEN "Authentication required"
  ELSE "none"

\* every question is stored approved
IsApprovedAlways(moderate) == TRUE

\* is_approved: !moderate
IsApproved(moderate) == ~moderate

\* context.userId || null
UserIdColumn(user) == IF user = NoUser THEN "null" ELSE user

\* the row submitReaction inserts
ReactionRow(sid, slideNumber, emoji, tok, user) ==
  [session_id |-> sid, slide_number |-> slideNumber, reaction_type |-> emoji,
   user_id |-> UserIdColumn(user), session_token |-> tok]

\* the row submitQuestion inserts
QuestionRow(sid, slideNumber, text, moderate, tok, user) ==
  [session_id |-> sid, slide_number |-> slideNumber, question_text |-> text,
   user_id |-> UserIdColumn(user), session_token |-> tok, is_approved |-> IsApproved(moderate)]

\* the handler throws: nothing reaches the database or the coordinator
Throws(input, error) ==
  /\ Event
  /\ reply' = [result |-> error, input |-> input, log |-> <<>>]
  /\ sent' = <<>>
  /\ failed' = <<>>
  /\ UNCHANGED coordinator
  /\ UNCHANGED <<dbActive, dbReactions, dbQuestions, submitted, acked, shown, opened>>

\* submitFeedback with its inserts; insertOk: the insert returns no error;
\* notifyOk: the fetch of /notify resolves with an ok response
SubmitFeedbackStored(input, tok, user, insertOk, notifyOk, F) ==
  LET session == SessionRow(input.sessionId)
      error == Rejection(session, user) IN
  IF error # "none" THEN F = {} /\ Throws(input, error)
  ELSE IF ~insertOk THEN F = {} /\ Throws(input, "Failed to save " \o input.type)
  ELSE
    /\ IF input.type = "reaction"
       THEN /\ dbReactions' = Append(dbReactions,
                  ReactionRow(input.sessionId, input.slideNumber, input.value, tok, user))
            /\ UNCHANGED dbQuestions
       ELSE /\ dbQuestions' = Append(dbQuestions,
                  QuestionRow(input.sessionId, input.slideNumber, input.value,
                              session.moderate_questions, tok, user))
            /\ UNCHANGED dbReactions
    /\ IF notifyOk /\ input.durableObjectId = ThisDo
       THEN /\ HandleNotify(FeedbackNotification(input.type, input.slideNumber,
                                                  input.value, tok, user), F)
            /\ reply' = [result |-> "success", input |-> input, log |-> <<>>]
       ELSE \* the notification fails and is logged, or goes to another coordinator
            /\ F = {}
            /\ Event
            /\ reply' = [result |-> "success", input |-> input,
                          log |-> IF notifyOk THEN <<>>
                                  ELSE <<"Error notifying Durable Object">>]
            /\ sent' = <<>>
            /\ failed' = <<>>
            /\ UNCHANGED coordinator
            /\ UNCHANGED <<submitted, acked, shown, opened>>
    /\ UNCHANGED dbActive

\* getFeedbackResults: the questions query
ApprovedQuestions(rows, sid) ==
  SelectSeq(rows, LAMBDA q : q.session_id = sid /\ q.is_approved = TRUE)

\* getFeedbackResults; the rows are listed in the order stored (the queries
\* order by timestamp and by upvotes, columns the inserts leave at their
\* defaults)
GetFeedbackResults(sid) ==
  /\ Event
  /\ reply' = [result |-> "results", sessionId |-> sid,
                reactions |-> SelectSeq(dbReactions, LAMBDA r : r.session_id = sid),
                questions |-> ApprovedQuestions(dbQuestions, sid)]
  /\ sent' = <<>>
  /\ failed' = <<>>
  /\ UNCHANGED coordinator
  /\ UNCHANGED <<dbActive, dbReactions, dbQuestions, submitted, acked, shown, opened>>

(* --------------------------- /reactions ------------------------------- *)
\* key.split('-')
RECURSIVE Split(_, _)
Split(str, sep) ==
  IF \A i \in 1..Len(str) : str[i] # sep THEN <<str>>
  ELSE LET i == CHOOSE j \in 1..Len(str) :
                  str[j] = sep /\ \A k \in 1..(j - 1) : str[k] # sep
       IN <<SubSeq(str, 1, i - 1)>> \o Split(SubSeq(str, i + 1, Len(str)), sep)

IsDigit(ch) == \E i \in 1..10 : DigitChars[i] = ch
DigitValue(ch) == (CHOOSE i \in 1..10 : DigitChars[i] = ch) - 1

\* what parseInt returns for a string that does not start with a digit
NaN == -1

\* parseInt of a string without sign or leading space: its leading digits
RECURSIVE LeadingValue(_, _)
LeadingValue(str, acc) ==
  IF str = <<>> \/ ~IsDigit(str[1]) THEN acc
  ELSE LeadingValue(Tail(str), 10 * acc + DigitValue(str[1]))

ParseInt(str) ==
  IF str = <<>> \/ ~IsDigit(str[1]) THEN NaN ELSE LeadingValue(str, 0)

\* const [slide, emoji] = key.split('-'): the entry a key is written to
GroupOf(key) == <<ParseInt(Split(key, "-")[1]), Split(key, "-")[2]>>

\* the orders in which forEach may visit the keys (the Map's insertion order,
\* which the tally function does not record)
Orders(r) ==
  {o \in [1..Cardinality(DOMAIN r) -> DOMAIN r] :
     \A i, j \in DOMAIN o : o[i] = o[j] => i = j}

\* slideReactions[slideNum][emoji] = count, for the keys in the order visited
RECURSIVE Grouped(_, _)
Grouped(r, order) ==
  IF order = <<>> THEN EmptyObj
  ELSE LET k == order[Len(order)] IN
       (GroupOf(k) :> r[k]) @@ Grouped(r, SubSeq(order, 1, Len(order) - 1))

\* getReactions
GetReactions(order) ==
  /\ Event
  /\ reply' = [result |-> "snapshot", currentSlide |-> currentSlide,
                reactions |-> Grouped(reactions, order),
                participants |-> Cardinality(participants)]
  /\ sent' = <<>>
  /\ failed' = <<>>
  /\ UNCHANGED coordinator
  /\ UNCHANGED <<dbActive, dbReactions, dbQuestions, submitted, acked, shown, opened>>

Next ==
  \/ \E c \in Conns, F \in Fails : OnClose(c, F) /\ NoDb /\ NoClient
  \/ \E c \in Conns, j \in JoinInputs, t \in Times, ok \in BOOLEAN, F \in Fails :
        Join(c, j[1], j[2], t, ok, F) /\ NoDb /\ NoClient
  \/ \E c \in Conns, p \in ReactionInputs : HandleReaction(c, p[1], p[2]) /\ NoDb /\ NoClient
  \/ \E c \in Conns, s \in QuestionSlides, F \in Fails : HandleQuestion(c, s, "tA", F) /\ NoDb /\ NoClient
  \/ \E c \in Conns, s \in ChangeSlides : HandleSlideChange(c, s) /\ NoDb /\ NoClient
  \/ \E c \in Conns, d \in UpdatePayloads : HandleUpdate(c, d) /\ NoDb /\ NoClient
  \/ \E c \in Conns, ok \in BOOLEAN : Ping(c, ok) /\ NoDb /\ NoClient
  \/ \E c \in Conns, cl \in Clients : ClientOpen(c, cl) /\ NoDb /\ NoClient
  \/ \E F \in Fails : PutResolves(F) /\ NoDb /\ NoClient
  \/ PutRejects /\ NoDb /\ NoClient
  \/ \E d \in InitPayloads : HandleInit(d) /\ NoDb /\ NoClient
  \/ \E u \in Users, F \in Fails : SubmitFeedback("reaction", 1, <<"+">>, "tA", u, F) /\ NoDb /\ NoClient
  \/ \E u \in Users, F \in Fails : SubmitFeedback("question", 1, QuestionText, "tA", u, F) /\ NoDb /\ NoClient
  \/ \E F \in Fails : CloseSession(F) /\ NoDb /\ NoClient

Spec == Init /\ [][Next]_vars

\* The HTTP handlers with their database rows, the snapshot endpoint, and the
\* coordinator operations they meet.
NextHttp ==
  \/ \E c \in Conns, ok \in BOOLEAN :
        Join(c, "audience", "tB", 1, ok, {}) /\ NoDb /\ NoClient
  \/ \E p \in HyphenReactions \cup {<<1, <<"+">> >>} :
        HandleReaction(1, p[1], p[2]) /\ NoDb /\ NoClient
  \/ PutResolves({}) /\ NoDb /\ NoClient
  \/ PutRejects /\ NoDb /\ NoClient
  \/ CloseSession({}) /\ NoDb /\ NoClient
  \/ \E i \in FeedbackInputs, u \in Users, io \in BOOLEAN, no \in BOOLEAN, F \in HttpFails :
        SubmitFeedbackStored(i, "tA", u, io, no, F) /\ NoClient
  \/ \E sid \in SessionIds : GetFeedbackResults(sid) /\ NoClient
  \/ \E o \in Orders(reactions) : GetReactions(o) /\ NoClient

SpecHttp == Init /\ [][NextHttp]_vars

(* ------------------------- the shipped clients ------------------------ *)
\* useState of the component, after its socket opened and onopen ran; outbox:
\* what ws.send has queued and the coordinator's message listener has not
\* run for yet
InitialView(client) ==
  IF client = "FeedbackWidget"
  THEN [client |-> client, isConnected |-> TRUE, currentSlide |-> 1,
        participants |-> 0, reactionCounts |-> EmptyObj,
        outbox |-> <<WidgetOpening>>]
  ELSE [client |-> client, isConnected |-> TRUE, currentSlide |-> 1,
        participants |-> 0, slideReactions |-> EmptyObj,
        outbox |-> <<DashboardOpening>>]

Mounted(view) == view.client # "none"

\* if (message.slide): present and not 0
HasSlide(msg) == "slide" \in DOMAIN msg /\ msg.slide # 0

\* if (message.emoji): present and not the empty string
HasEmoji(msg) == "emoji" \in DOMAIN msg /\ msg.emoji # <<>>

\* websocket.onmessage of the audience widget (the error text is not modelled)
WidgetOnMessage(view, msg) ==
  IF msg.type = "init"
  THEN [view EXCEPT
          !.currentSlide = IF HasSlide(msg) THEN msg.slide ELSE @,
          !.participants = IF "participants" \in DOMAIN msg THEN msg.participants ELSE @]
  ELSE IF msg.type = "slideChange"
  THEN [view EXCEPT !.currentSlide = IF HasSlide(msg) THEN msg.slide ELSE @]
  ELSE IF msg.type = "participantCount"
  THEN [view EXCEPT !.participants = IF "count" \in DOMAIN msg THEN msg.count ELSE @]
  ELSE IF msg.type = "reaction" /\ HasEmoji(msg)
  THEN [view EXCEPT !.reactionCounts = Increment(@, msg.emoji)]
  ELSE view

\* websocket.onmessage of the presenter dashboard: it has no slideChange case
\* (the analytics summary and the error text are not modelled)
DashboardOnMessage(view, msg) ==
  IF msg.type = "init"
  THEN [view EXCEPT
          !.currentSlide = IF HasSlide(msg) THEN msg.slide ELSE @,
          !.participants = IF "participants" \in DOMAIN msg THEN msg.participants ELSE @,
          !.slideReactions = IF "analytics" \in DOMAIN msg
                             THEN msg.analytics.slideReactions ELSE @]
  ELSE IF msg.type = "participantCount"
  THEN [view EXCEPT !.participants = IF "count" \in DOMAIN msg THEN msg.count ELSE @]
  ELSE IF msg.type = "reaction" /\ HasEmoji(msg) /\ HasSlide(msg)
  THEN [view EXCEPT !.slideReactions = Increment(@, <<msg.slide, msg.emoji>>)]
  ELSE view

OnMessage(view, msg) ==
  IF view.client = "FeedbackWidget" THEN WidgetOnMessage(view, msg)
  ELSE DashboardOnMessage(view, msg)

\* onmessage runs for each message in the order sent
RECURSIVE Handled(_, _)
Handled(view, msgs) ==
  IF msgs = <<>> THEN view
  ELSE Handled(OnMessage(view, Head(msgs).msg), Tail(msgs))

\* every message sent to the socket of a connected component reaches its
\* onmessage
Delivered(vs, deliveries) ==
  [c \in Conns |->
     IF Mounted(vs[c]) /\ vs[c].isConnected
     THEN Handled(vs[c], SelectSeq(deliveries, LAMBDA d : d.to = c))
     ELSE vs[c]]

\* a component is mounted on a new socket
Mount(c, client) ==
  /\ ~Mounted(views[c])
  /\ ~HasSession(sessions, c)
  /\ views' = [views EXCEPT ![c] = InitialView(client)]
  /\ sent' = <<>>
  /\ failed' = <<>>
  /\ UNCHANGED coordinator
  /\ UNCHANGED <<dbActive, submitted, acked, shown, opened, events>>

\* sendReaction of the widget: the message is queued on the socket and the
\* local count goes up at once
WidgetSendReaction(c, emoji) ==
  /\ views[c].client = "FeedbackWidget"
  /\ views[c].isConnected
  /\ Event
  /\ views' = [views EXCEPT
        ![c].outbox = Append(@, [type |-> "reaction", emoji |-> emoji,
                                 slide |-> views[c].currentSlide,
                                 sessionToken |-> WidgetOpening.sessionToken]),
        ![c].reactionCounts = Increment(@, emoji)]
  /\ sent' = <<>>
  /\ failed' = <<>>
  /\ UNCHANGED coordinator
  /\ UNCHANGED <<dbActive, submitted, acked, shown, opened>>

\* changeSlide of the dashboard (isPaused is false throughout)
DashboardChangeSlide(c, newSlide) ==
  /\ views[c].client = "PresenterDashboard"
  /\ ~(newSlide < 1 \/ newSlide > DashboardOpening.totalSlides)
  /\ Event
  /\ views' = [views EXCEPT
        ![c].currentSlide = newSlide,
        ![c].outbox = IF views[c].isConnected
                      THEN Append(@, [type |-> "slideChange", slide |-> newSlide])
                      ELSE @]
  /\ sent' = <<>>
  /\ failed' = <<>>
  /\ UNCHANGED coordinator
  /\ UNCHANGED <<dbActive, submitted, acked, shown, opened>>

\* the coordinator's message listener runs for the next message a component
\* sent
Receives(c) ==
  /\ Mounted(views[c])
  /\ views[c].outbox # <<>>
  /\ LET msg == Head(views[c].outbox) IN
     /\ IF msg.type = "reaction" THEN HandleReaction(c, msg.slide, msg.emoji)
        ELSE IF msg.type = "slideChange" THEN HandleSlideChange(c, msg.slide)
        ELSE ClientOpen(c, views[c].client)
     /\ views' = Delivered([views EXCEPT ![c].outbox = Tail(@)], sent')

\* the socket closes: what the component had queued is lost; onclose
ClientClosed(vs, c) ==
  IF Mounted(vs[c])
  THEN [vs EXCEPT ![c].isConnected = FALSE, ![c].outbox = <<>>]
  ELSE vs

\* a step of the coordinator with the delivery of what it sent
WithDelivery == views' = Delivered(views, sent')

\* The shipped components on their sockets, other clients on theirs, and the
\* coordinator. A join may arrive on any socket; the components send none.
NextClients ==
  \/ \E c \in Conns, client \in Clients : Mount(c, client) /\ NoDb
  \/ \E c \in Conns : WidgetSendReaction(c, <<"+">>) /\ NoDb
  \/ \E c \in Conns, n \in ChangeSlides : DashboardChangeSlide(c, n) /\ NoDb
  \/ \E c \in Conns : Receives(c) /\ NoDb
  \/ \E c \in Conns, j \in JoinInputs :
        Join(c, j[1], j[2], 1, TRUE, {}) /\ WithDelivery /\ NoDb
  \/ \E c \in Conns :
        ~Mounted(views[c]) /\ HandleReaction(c, 1, <<"+">>) /\ NoClient /\ NoDb
  \/ \E c \in Conns, n \in ChangeSlides :
        ~Mounted(views[c]) /\ HandleSlideChange(c, n) /\ NoClient /\ NoDb
  \/ PutResolves({}) /\ WithDelivery /\ NoDb
  \/ PutRejects /\ NoClient /\ NoDb
  \/ \E c \in Conns :
        OnClose(c, {}) /\ views' = Delivered(ClientClosed(views, c), sent') /\ NoDb

SpecClients == Init /\ [][NextClients]_vars

(* ------------------------------ claims -------------------------------- *)
RoleOf(c) == IF HasSession(sessions, c) THEN SessionOf(sessions, c).role ELSE "none"

RegistryTokens(sess) == {sess[i].sessionToken : i \in 1..Len(sess)}

SentOfType(type) == {i \in 1..Len(sent) : sent[i].msg.type = type}

\* C1: once every reaction handler has completed, the count of each
\* (slide, symbol) pair is the number of reaction submissions handled for that
\* pair, and the tally holds no other key.
C1_TallyCountsSubmissions ==
  pending = <<>> =>
    /\ \A p \in ReactionInputs : Count(reactions, Key(p[1], p[2])) = submitted[p]
    /\ \A k \in DOMAIN reactions : \E p \in ReactionInputs : k = Key(p[1], p[2])

\* two submissions for one pair and one for another have all completed
C1_Witness ==
  /\ pending = <<>>
  /\ submitted[<<1, <<"+">> >>] = 2
  /\ submitted[<<3, <<"+">> >>] = 1
  /\ events = 3

\* C2: every tallied symbol belongs to the session's allowed reaction set
\* (stated for the sessions that have been given a configuration).
C2_OnlyAllowedSymbolsTallied ==
  "allowedReactions" \in DOMAIN sessionData =>
    \A p \in ReactionInputs :
      Count(reactions, Key(p[1], p[2])) > 0 => p[2] \in sessionData.allowedReactions

\* C3: the cursor lies in [1, slideCount].
C3_CursorInRange ==
  "slideCount" \in DOMAIN sessionData => currentSlide \in 1..sessionData.slideCount

\* C4: a step changes the cursor only if it handles a slideChange message sent
\* by a connection registered with role presenter.
C4_OnlyPresenterMovesCursor ==
  [][currentSlide' # currentSlide =>
       /\ pending' # <<>>
       /\ pending'[Len(pending')].op = "slideChange"
       /\ RoleOf(pending'[Len(pending')].ws) = "presenter"]_vars

\* C5: a message of type question is delivered to presenter-role connections only.
C5_QuestionsToPresentersOnly ==
  \A i \in SentOfType("question") : RoleOf(sent[i].to) = "presenter"

\* C6: a token leaves the ParticipantSet only when no remaining registered
\* connection carries it.
C6_TokenKeptUntilLastClose ==
  [][\A tk \in participants :
        tk \notin participants' => tk \notin RegistryTokens(sessions')]_vars

\* C7: the ParticipantSet is the set of tokens of the registered connections.
C7_ParticipantsAreRegistryTokens == participants = RegistryTokens(sessions)

\* C8: the currentSlide of an init snapshot is the slide of the most recently
\* acknowledged slide change (1 if there was none).
C8_SnapshotSlideIsAcked ==
  \A i \in SentOfType("init") : sent[i].msg.currentSlide = acked

\* C9: a join adds the connection's token to the ParticipantSet, its init
\* snapshot carries the full tally and a count that includes the token, and the
\* participant count is then broadcast to every registered connection.
C9_JoinSnapshotAndCount ==
  \A i \in SentOfType("init") :
    LET c == sent[i].to IN
    /\ HasSession(sessions, c) =>
         /\ SessionOf(sessions, c).sessionToken \in participants
         /\ sent[i].msg.participants = Cardinality(participants)
    /\ sent[i].msg.reactions = reactions
    /\ \A d \in WsOf(sessions) :
         \E j \in SentOfType("participants") :
           sent[j].to = d /\ sent[j].msg.count = Cardinality(participants) /\ j > i

\* C10: no step lowers or removes a tally count, and a step that moves the
\* cursor leaves the tally as it is.
C10_TallyNeverDecreases ==
  [][/\ \A k \in DOMAIN reactions :
          k \in DOMAIN reactions' /\ reactions'[k] >= reactions[k]
     /\ currentSlide' # currentSlide => reactions' = reactions]_vars

\* a slide change has moved the cursor over a tally that holds a completed reaction
C10_Witness ==
  /\ reactions # EmptyObj
  /\ Len(pending) = 1
  /\ pending[1].op = "slideChange"
  /\ currentSlide = 2

\* the handler a step has just suspended at its storage write, if any
Queued(p, q) == Len(q) = Len(p) + 1

\* C11: once closeSession has completed, no step changes the tally or the cursor.
C11_NothingAfterClose ==
  [][~dbActive => reactions' = reactions /\ currentSlide' = currentSlide]_vars

\* C12: a step counts a reaction only if the connection it arrived over is
\* registered.
C12_ReactionNeedsRegistration ==
  [][reactions' # reactions =>
       /\ Queued(pending, pending')
       /\ HasSession(sessions, pending'[Len(pending')].ws)]_vars

\* C13: a step that handles a reaction whose slide is outside [1, slideCount]
\* changes neither the tally nor the persisted tally, and queues no broadcast.
C13_OutOfRangeReactionNotApplied ==
  [][\A p \in ReactionInputs :
       (/\ submitted'[p] # submitted[p]
        /\ "slideCount" \in DOMAIN sessionData
        /\ p[1] \notin 1..sessionData.slideCount)
       => reactions' = reactions /\ storage' = storage /\ pending' = pending]_vars

\* the step in which the storage write of the oldest suspended handler settles
Settles(p, q) == p # <<>> /\ q = Tail(p)

\* a message sent with broadcast or broadcastToPresenters, not a direct reply
IsBroadcast(msg) == msg.type \notin {"init", "pong"}

\* the message of handleQuestion, which goes to presenters only
ToPresentersOnly(msg) == msg.type = "question" /\ "text" \in DOMAIN msg

Received(d, msg) == \E j \in 1..Len(sent') : sent'[j] = [to |-> d, msg |-> msg]

\* the reaction message handleReaction broadcasts (it carries a count)
IsReactionCount(msg) == msg.type = "reaction" /\ "count" \in DOMAIN msg

\* C14: when a send of a broadcast throws, the failing connection is no longer
\* registered, every remaining targeted connection has received the message,
\* and a reaction that triggered the broadcast has completed: its handler has
\* left the queue, its increment is in the tally and its write is in storage.
C14_BroadcastSurvivesFailedSend ==
  [][\A i \in 1..Len(failed') :
       LET msg == failed'[i].msg IN
       IsBroadcast(msg) =>
         /\ failed'[i].to \notin WsOf(sessions')
         /\ \A k \in 1..Len(sessions') :
              (ToPresentersOnly(msg) => IsPresenter(sessions'[k]))
                => Received(sessions'[k].ws, msg)
         /\ IsReactionCount(msg) =>
              /\ Settles(pending, pending')
              /\ Count(reactions', Key(msg.slide, msg.emoji)) >= msg.count
              /\ storage'.reactions = Head(pending).value]_vars

\* the broadcast of a reaction failed for one connection and reached the other
C14_Witness ==
  /\ Len(failed) = 1
  /\ IsReactionCount(failed[1].msg)
  /\ Len(sent) = 1
  /\ sent[1].msg = failed[1].msg
  /\ WsOf(sessions) = {sent[1].to}

\* C15: when the storage write of a reaction or a slide change settles, resolved
\* or rejected, its message is sent to every registered connection.
C15_CheckpointFailureStillBroadcasts ==
  [][(Settles(pending, pending') /\ Head(pending).op \in {"reaction", "slideChange"})
       => \A d \in WsOf(sessions') :
            \E i \in 1..Len(sent') :
              sent'[i].to = d /\ sent'[i].msg.type = Head(pending).op]_vars

C17_ArrivalOrder ==
  [][events' # events => pending = <<>>]_vars

\* the immutable part of a session configuration
ConfigOf(d) ==
  [f \in {"slideCount", "allowedReactions"} \cap DOMAIN d |-> d[f]]

\* the session has been started: /init has stored a configuration
Running(d) == "allowedReactions" \in DOMAIN d

\* C18: on a running session only /init changes the slide count or the allowed
\* reaction set; no WebSocket message does.
C18_ConfigImmutable ==
  [][(Running(sessionData) /\ ConfigOf(sessionData') # ConfigOf(sessionData))
       => Queued(pending, pending') /\ pending'[Len(pending')].op = "init"]_vars

\* C19: /init on a running session leaves the session configuration as it is.
C19_InitKeepsRunningConfig ==
  [][(/\ Running(sessionData)
      /\ Queued(pending, pending')
      /\ pending'[Len(pending')].op = "init")
       => sessionData' = sessionData]_vars

\* C20: when a shipped client has sent its opening message the coordinator has
\* registered its connection and sent it an init snapshot.
C20_OpeningMessageRegisters ==
  [][\A c \in opened' \ opened :
       /\ HasSession(sessions', c)
       /\ \E i \in 1..Len(sent') : sent'[i].to = c /\ sent'[i].msg.type = "init"]_vars

\* a close event: no message is handled and no storage write settles
CloseStep == events' = events /\ pending' = pending

\* the sockets whose send threw in the step
FailedTo(f) == {f[i].to : i \in 1..Len(f)}

\* C21: a close that removes a token sends each remaining connection exactly
\* one participants message with the new set size, and a close that removes no
\* registered handle changes the registry not at all and sends nothing.
C21_CloseBroadcastsOnce ==
  [][CloseStep =>
       /\ participants' # participants =>
            \A d \in WsOf(sessions') :
              Cardinality({i \in 1..Len(sent') :
                 sent'[i] = [to |-> d, msg |-> ParticipantsMsg(participants')]}) = 1
       /\ WsOf(sessions) \subseteq (WsOf(sessions') \cup FailedTo(failed')) =>
            /\ sent' = <<>>
            /\ failed' = <<>>
            /\ sessions' = sessions]_vars

\* the cursor the constructor restores from storage
RestoredSlide(st) ==
  IF "currentSlide" \in DOMAIN st /\ st.currentSlide # 0 THEN st.currentSlide ELSE 1

\* the tally the constructor restores from storage
RestoredReactions(st) == IF "reactions" \in DOMAIN st THEN st.reactions ELSE EmptyObj

\* C23: whenever no handler is suspended at a storage write, the cursor and
\* the tally a restart would restore are the cursor and the tally in memory.
C23_PersistedIsInMemory ==
  pending = <<>> =>
    /\ RestoredSlide(storage) = currentSlide
    /\ RestoredReactions(storage) = reactions

\* C22: a /reactions snapshot reports the current slide, the participant count
\* and, for every slide and emoji the tally counts, that same count under that
\* slide and emoji.
C22_SnapshotFaithful ==
  reply.result = "snapshot" =>
    /\ reply.currentSlide = currentSlide
    /\ reply.participants = Cardinality(participants)
    /\ \A p \in ReactionDomain :
         Key(p[1], p[2]) \in DOMAIN reactions =>
           /\ <<p[1], p[2]>> \in DOMAIN reply.reactions
           /\ reply.reactions[<<p[1], p[2]>>] = reactions[Key(p[1], p[2])]


\* C24: every question row the HTTP submit handler stored has an approval flag
\* equal to the negation of its session's moderate_questions, and a results
\* query returns only approved questions of the session asked for, so none of
\* a session that moderates its questions.
C24_ApprovalFollowsModeration ==
  /\ \A i \in 1..Len(dbQuestions) :
       dbQuestions[i].is_approved =
         ~SessionRow(dbQuestions[i].session_id).moderate_questions
  /\ reply.result = "results" =>
       /\ \A j \in 1..Len(reply.questions) :
            /\ reply.questions[j].is_approved
            /\ reply.questions[j].session_id = reply.sessionId
            /\ \E i \in 1..Len(dbQuestions) : dbQuestions[i] = reply.questions[j]
       /\ \A i \in 1..Len(dbQuestions) :
            SessionRow(dbQuestions[i].session_id).moderate_questions =>
              \A j \in 1..Len(reply.questions) : reply.questions[j] # dbQuestions[i]

\* a question was stored under moderation and the results of its session,
\* queried afterwards, do not hold it
C24_Witness ==
  /\ reply.result = "results"
  /\ reply.sessionId = ThisSession
  /\ reply.questions = <<>>
  /\ \E i \in 1..Len(dbQuestions) :
       dbQuestions[i].session_id = ThisSession /\ ~dbQuestions[i].is_approved


\* C27: an operation on another session leaves this session alone: a
\* submission accepted for a session other than this coordinator's delivers
\* no message to this coordinator's connections and changes none of its
\* cursor, tally, registry and participant set.
C27_SessionsIsolated ==
  [][(reply'.result = "success" /\ reply'.input.sessionId # ThisSession) =>
       /\ sent' = <<>>
       /\ failed' = <<>>
       /\ UNCHANGED coordinator]_vars


\* the reaction rows stored for this session, a slide and a symbol
RowsOf(slide, emoji) ==
  {i \in 1..Len(dbReactions) :
     /\ dbReactions[i].session_id = ThisSession
     /\ dbReactions[i].slide_number = slide
     /\ dbReactions[i].reaction_type = emoji}

\* C28: when no reaction is being handled, the number of reaction rows stored
\* for a slide and symbol equals the count the coordinator holds for them.
C28_RowsMatchTally ==
  pending = <<>> =>
    \A p \in ReactionDomain :
      Cardinality(RowsOf(p[1], p[2])) = Count(reactions, Key(p[1], p[2]))


\* the errors with which submitFeedback rejects
SubmitErrors ==
  {"Session not found", "Session is not active", "Authentication required",
   "Failed to save reaction", "Failed to save question"}

Rows == dbReactions \o dbQuestions

\* the row a step stored
StoredRow ==
  IF dbReactions' # dbReactions THEN dbReactions'[Len(dbReactions')]
  ELSE dbQuestions'[Len(dbQuestions')]

\* C29: a submission that rejects stores no row, notifies nobody and leaves
\* the coordinator as it was; a row is stored only for a session that exists,
\* is active and, where it requires authentication, for a caller with a user
\* id; the coordinator is notified only by a submission that succeeds; and a
\* submission whose notification failed still succeeds with its row stored.
C29_RejectionAppliesNothing ==
  [][/\ reply'.result \in SubmitErrors =>
          /\ UNCHANGED <<dbReactions, dbQuestions>>
          /\ sent' = <<>>
          /\ failed' = <<>>
          /\ UNCHANGED coordinator
     /\ Rows' # Rows =>
          /\ reply'.result = "success"
          /\ Len(Rows') = Len(Rows) + 1
          /\ StoredRow.session_id = reply'.input.sessionId
          /\ LET session == SessionRow(StoredRow.session_id) IN
               /\ session.found
               /\ session.is_active
               /\ session.require_auth => StoredRow.user_id # "null"
     /\ reply'.result = "success" => Rows' # Rows
     /\ ("input" \in DOMAIN reply' /\ (sent' # <<>> \/ failed' # <<>>)) =>
          reply'.result = "success"]_vars

\* a submission was rejected while connections were registered
C29_Witness ==
  /\ reply.result \in SubmitErrors
  /\ sessions # <<>>

\* a submission succeeded although its notification failed
C29_WitnessNotifyFailed ==
  /\ reply.result = "success"
  /\ reply.log # <<>>
  /\ sessions # <<>>


\* the write of a slide change resolved in this step: handleSlideChange went
\* on to its broadcast
SlideChangeBroadcast ==
  /\ Settles(pending, pending')
  /\ Head(pending).op = "slideChange"
  /\ acked' = Head(pending).value
  /\ (storage' # storage \/ acked' # acked)

\* C25: once a slide change has been stored and broadcast, with every message
\* delivered, each connected widget and each connected dashboard other than
\* the one that issued the change shows the coordinator's current slide.
C25_ViewsFollowSlideChange ==
  [][SlideChangeBroadcast =>
       \A c \in Conns \ {Head(pending).ws} :
         (Mounted(views'[c]) /\ views'[c].isConnected) =>
           views'[c].currentSlide = currentSlide']_vars

\* the count a dashboard shows for a slide and symbol
DashboardCount(view, slide, emoji) == Count(view.slideReactions, <<slide, emoji>>)

\* C26: after a dashboard has handled a reaction message, the count it shows
\* for that slide and symbol is the count the message carries.
C26_DashboardShowsCarriedCount ==
  [][\A i \in 1..Len(sent') :
       LET d == sent'[i] IN
       (/\ IsReactionCount(d.msg)
        /\ views'[d.to].client = "PresenterDashboard"
        /\ views'[d.to].isConnected) =>
          DashboardCount(views'[d.to], d.msg.slide, d.msg.emoji) = d.msg.count]_vars

\* the reactions with a symbol the coordinator has accepted
Accepted(emoji) ==
  LET S == {p \in ReactionDomain : p[2] = emoji}
      sum[T \in SUBSET S] ==
        IF T = {} THEN 0
        ELSE LET p == CHOOSE q \in T : TRUE IN submitted[p] + sum[T \ {p}]
  IN sum[S]

\* the reactions with a symbol a widget has sent that the coordinator has
\* not handled yet
InFlight(view, emoji) ==
  Len(SelectSeq(view.outbox, LAMBDA m : m.type = "reaction" /\ m.emoji = emoji))

\* C30: the count a widget shows for a symbol is at most the number of
\* reactions with that symbol the coordinator has accepted, those of the
\* widget still on their way counted in.
C30_WidgetCountWithinAccepted ==
  \A c \in Conns :
    views[c].client = "FeedbackWidget" =>
      \A e \in DOMAIN views[c].reactionCounts :
        views[c].reactionCounts[e] <= Accepted(e) + InFlight(views[c], e)

====
